---- MODULE Spec2Model ----
(***************************************************************************)
(* Model of output_codebase.py: a command line tool that walks a directory *)
(* tree, filters ignored directories, file names and extensions, and       *)
(* concatenates the remaining files into one output file.                  *)
(*                                                                         *)
(* File names are sequences of one-character strings, so that              *)
(* os.path.splitext and str.lower are computed and not assumed.  Directory *)
(* paths are sequences of component names; os.path.abspath is the lexical  *)
(* normalisation it is in Python, and the file system resolves the one     *)
(* symbolic link of the modelled environment.                              *)
(***************************************************************************)
EXTENDS Integers, Sequences, FiniteSets, TLC

VARIABLES
    files,            \* file system: regular files, [dir |-> real absolute directory, name |-> file name]
    unreadable,       \* files whose open(..., "r") raises OSError (permissions)
    args,             \* parsed command line: [input_dir, output]
    pc,               \* position of the process: "start", "open", "walk", "done"
    exit_code,        \* process exit status, NoExit while running
    abs_input_dir,    \* combine_files local
    abs_output_file,  \* combine_files local
    processed_files,  \* combine_files local
    skipped_files,    \* combine_files local
    out,              \* content of the output file of this run, a sequence of written pieces
    created,          \* TRUE once open(output_file, "w") has created/truncated the output file
    stack,            \* os.walk: directories still to be yielded, next first
    dirpath,          \* os.walk: directory of the current iteration
    pending,          \* file names of the current directory not yet looped over
    reads,            \* history: every open(file_path, "r"), in order, with its outcome
    stdout,           \* the summary printed at the end of combine_files, NoSummary before
    stderr,           \* diagnostics printed to sys.stderr, in order
    faults,           \* number of failed writes to the output so far
    run,              \* "first" or "second" invocation of the tool
    prev              \* the first invocation's result, once a second one has started

vars == <<files, unreadable, args, pc, exit_code, abs_input_dir, abs_output_file,
          processed_files, skipped_files, out, created, stack, dirpath, pending,
          reads, stdout, stderr, faults, run, prev>>

----------------------------------------------------------------------------
(* Bounds of the model *)

MaxFiles == 2          \* files in the input tree before the tool runs
MaxWriteFaults == 1    \* failing writes to the output file per behaviour

----------------------------------------------------------------------------
(* Configuration *)

IGNORED_DIRS ==
    {".git", ".vscode", "__pycache__", "node_modules", "build", "dist",
     "venv", ".venv", "env", ".env", "target", "logs"}

IGNORED_FILES ==
    {<<".","D","S","_","S","t","o","r","e">>,
     <<"p","a","c","k","a","g","e","-","l","o","c","k",".","j","s","o","n">>,
     <<"y","a","r","n",".","l","o","c","k">>,
     <<"p","o","e","t","r","y",".","l","o","c","k">>,
     <<"P","i","p","f","i","l","e",".","l","o","c","k">>}

IGNORED_EXTENSIONS ==
    {<<".","p","y","c">>, <<".","p","y","o">>, <<".","c","l","a","s","s">>,
     <<".","o">>, <<".","s","o">>, <<".","d","l","l">>, <<".","e","x","e">>,
     <<".","l","o","g">>, <<".","l","o","c","k">>, <<".","s","w","p">>,
     <<".","s","w","o">>,
     <<".","p","n","g">>, <<".","j","p","g">>, <<".","j","p","e","g">>,
     <<".","g","i","f">>, <<".","b","m","p">>, <<".","t","i","f","f">>,
     <<".","p","d","f">>, <<".","d","o","c">>, <<".","d","o","c","x">>,
     <<".","x","l","s">>, <<".","x","l","s","x">>, <<".","p","p","t">>,
     <<".","p","p","t","x">>,
     <<".","z","i","p">>, <<".","t","a","r">>, <<".","g","z">>,
     <<".","r","a","r">>, <<".","7","z">>,
     <<".","m","p","3">>, <<".","w","a","v">>, <<".","o","g","g">>,
     <<".","m","p","4">>, <<".","a","v","i">>, <<".","m","o","v">>,
     <<".","m","k","v">>}

----------------------------------------------------------------------------
(* The environment the tool is run in *)

\* Current working directory of the process.
Cwd == <<"home">>

\* The directory the user wants scanned, and a symbolic link to it.
RealRoot == <<"home", "proj">>
LinkRoot == <<"home", "link">>

\* Directories that exist (real paths).  "build" is an ignored name.
Directories ==
    {<<"home">>, RealRoot,
     RealRoot \o <<"src">>,
     RealRoot \o <<"build">>,
     RealRoot \o <<"build", "src">>}

\* A regular file next to the root: a path that exists and is no directory.
PlainPaths == {<<"home", "notes">>}

\* Order in which the file system lists directory entries (scandir order).
DirOrder == <<"build", "src">>

APy == <<"a",".","p","y">>
BUpperO == <<"b",".","O">>
DotO == <<".","o">>
DSStore == <<".","D","S","_","S","t","o","r","e">>
DsStoreLower == <<".","d","s","_","s","t","o","r","e">>
OutTxt == <<"o","u","t",".","t","x","t">>

FileOrder == <<DotO, DSStore, DsStoreLower, APy, BUpperO, OutTxt>>

\* Files the input tree may hold before the tool runs.
Entries ==
    {[dir |-> RealRoot, name |-> n] : n \in {APy, BUpperO, DotO, DSStore, DsStoreLower}}
    \cup {[dir |-> d, name |-> APy] :
            d \in {RealRoot \o <<"src">>, RealRoot \o <<"build">>,
                   RealRoot \o <<"build", "src">>}}

\* Command lines: the positional input_dir and the -o/--output path.
InputArgs == {<<"proj">>, <<"link">>, <<"proj", "src", "..">>, <<"missing">>, <<"notes">>}

OutputArgs ==
    {[dir |-> d, name |-> OutTxt] :
        d \in {<<>>, <<"proj">>, <<"link">>, <<"proj", "src">>, <<"proj", "build">>}}

NoExit == -1
NoSummary == [printed |-> FALSE]

----------------------------------------------------------------------------
(* Path functions *)

RECURSIVE normpath(_)
\* os.path.normpath on a component list: "." is dropped, ".." removes the
\* component before it (lexically).
normpath(p) ==
    IF p = <<>> THEN <<>>
    ELSE LET init == normpath(SubSeq(p, 1, Len(p) - 1))
             last == p[Len(p)]
         IN  IF last = "." THEN init
             ELSE IF last = ".." /\ init # <<>> THEN SubSeq(init, 1, Len(init) - 1)
             ELSE IF last = ".." THEN init
             ELSE Append(init, last)

\* os.path.abspath of a relative directory path: join with the cwd, normalise.
abspath(p) == normpath(Cwd \o p)

\* What the file system makes of an absolute path: symbolic links followed.
Resolve(p) ==
    IF Len(p) >= Len(LinkRoot) /\ SubSeq(p, 1, Len(LinkRoot)) = LinkRoot
    THEN RealRoot \o SubSeq(p, Len(LinkRoot) + 1, Len(p))
    ELSE p

\* isdir replaced by os.path.exists: a regular file passes the check.
isdir_exists(p) == Resolve(abspath(p)) \in Directories \cup PlainPaths

\* os.path.isdir
isdir(p) == Resolve(abspath(p)) \in Directories

IsPrefix(s, t) == Len(s) <= Len(t) /\ SubSeq(t, 1, Len(s)) = s

\* os.path.relpath(file_path, abs_input_dir) for a path below abs_input_dir.
relpath(fp, base) ==
    [dir |-> SubSeq(fp.dir, Len(base) + 1, Len(fp.dir)), name |-> fp.name]

\* str.lower on the characters of the model's alphabet.
LowerChar(c) ==
    CASE c = "A" -> "a" [] c = "B" -> "b" [] c = "C" -> "c" [] c = "D" -> "d"
      [] c = "E" -> "e" [] c = "F" -> "f" [] c = "G" -> "g" [] c = "H" -> "h"
      [] c = "I" -> "i" [] c = "J" -> "j" [] c = "K" -> "k" [] c = "L" -> "l"
      [] c = "M" -> "m" [] c = "N" -> "n" [] c = "O" -> "o" [] c = "P" -> "p"
      [] c = "Q" -> "q" [] c = "R" -> "r" [] c = "S" -> "s" [] c = "T" -> "t"
      [] c = "U" -> "u" [] c = "V" -> "v" [] c = "W" -> "w" [] c = "X" -> "x"
      [] c = "Y" -> "y" [] c = "Z" -> "z" [] OTHER -> c

lower(s) == [i \in 1..Len(s) |-> LowerChar(s[i])]

\* Index of the last "." of a name, 0 when there is none (str.rfind).
LastDot(s) ==
    LET dots == {i \in 1..Len(s) : s[i] = "."}
    IN  IF dots = {} THEN 0 ELSE CHOOSE i \in dots : \A j \in dots : j <= i

\* The extension os.path.splitext returns: from the last dot on, unless only
\* dots precede it (leading dots belong to the root, not the extension).
splitext(s) ==
    LET d == LastDot(s)
    IN  IF d > 0 /\ \E i \in 1..(d - 1) : s[i] # "."
        THEN SubSeq(s, d, Len(s))
        ELSE <<>>

----------------------------------------------------------------------------
(* Pieces written to the output file *)

NoPath == [dir |-> <<>>, name |-> <<>>]

Piece(k, path) == [kind |-> k, path |-> path]

\* The three header writes of combine_files.
Header ==
    <<Piece("header_dir", [dir |-> abs_input_dir, name |-> <<>>]),
      Piece("header_out", abs_output_file),
      Piece("begin", NoPath)>>

\* The three writes of one record: start marker, content, end marker and
\* blank line.  The content is named by the file it was read from.
Record(relative_path, entry) ==
    <<Piece("start", relative_path),
      Piece("content", entry),
      Piece("end", relative_path)>>

\* A footer line that names the output file.
Footer_named == Piece("end_of_content", abs_output_file)

Footer == Piece("end_of_content", NoPath)

Diag(k, path) == [kind |-> k, path |-> path]

----------------------------------------------------------------------------
(* The file system as the walk sees it *)

\* The file os.open reaches through a lexical absolute path.
RealEntry(fp) == [dir |-> Resolve(fp.dir), name |-> fp.name]

\* Sub-directory names os.walk finds in directory top.
ListDirs(top) ==
    LET IsSub(n) == Resolve(top \o <<n>>) \in Directories
    IN  SelectSeq(DirOrder, IsSub)

\* File names os.walk finds in directory top.
ListFiles(top, fs) ==
    LET IsIn(n) == [dir |-> Resolve(top), name |-> n] \in fs
    IN  SelectSeq(FileOrder, IsIn)

\* The pruning assignment left out: every sub-directory is descended into.
PruneDirs_keepAll(dirnames) == dirnames

\* dirnames[:] = [d for d in dirnames if d not in IGNORED_DIRS]
PruneDirs(dirnames) ==
    LET Kept(d) == d \notin IGNORED_DIRS
    IN  SelectSeq(dirnames, Kept)

----------------------------------------------------------------------------
(* Filters of the file loop *)

filename == Head(pending)

file_path == [dir |-> dirpath, name |-> filename]

IgnoredFile(n) == n \in IGNORED_FILES

\* The extension compared without .lower().
IgnoredExtension_caseSensitive(n) == splitext(n) \in IGNORED_EXTENSIONS

IgnoredExtension(n) == lower(splitext(n)) \in IGNORED_EXTENSIONS

\* os.path.abspath(file_path) == abs_output_file
IsOutputItself(fp) == [dir |-> normpath(fp.dir), name |-> fp.name] = abs_output_file

\* One open(file_path, "r"): the relative path, the file reached, the outcome.
Read(fp, ok) ==
    [path |-> relpath(fp, abs_input_dir), entry |-> RealEntry(fp), ok |-> ok]

InLoop == pc = "walk" /\ pending # <<>>

Candidate ==
    /\ InLoop
    /\ ~IgnoredFile(filename)
    /\ ~IgnoredExtension(filename)
    /\ ~IsOutputItself(file_path)

----------------------------------------------------------------------------
(* Initial state *)

Init ==
    /\ files \in {S \in SUBSET Entries : Cardinality(S) <= MaxFiles}
    /\ unreadable \in {U \in SUBSET files : Cardinality(U) <= 1}
    /\ args = [input_dir |-> <<>>, output |-> NoPath]
    /\ pc = "start"
    /\ exit_code = NoExit
    /\ abs_input_dir = <<>>
    /\ abs_output_file = NoPath
    /\ processed_files = 0
    /\ skipped_files = 0
    /\ out = <<>>
    /\ created = FALSE
    /\ stack = <<>>
    /\ dirpath = <<>>
    /\ pending = <<>>
    /\ reads = <<>>
    /\ stdout = NoSummary
    /\ stderr = <<>>
    /\ faults = 0
    /\ run = "first"
    /\ prev = [valid |-> FALSE, out |-> <<>>, stdout |-> NoSummary,
               abs_output_file |-> NoPath]

----------------------------------------------------------------------------
(* Actions *)

env == <<files, unreadable, run, prev>>
walk == <<stack, dirpath, pending>>
counters == <<processed_files, skipped_files>>

\* __main__ with an input_dir that is no directory: report and exit(1).
MainBadRoot(i, o) ==
    /\ pc = "start"
    /\ ~isdir(i)
    /\ args' = [input_dir |-> i, output |-> o]
    /\ stderr' = Append(stderr, Diag("root_invalid", NoPath))
    /\ exit_code' = 1
    /\ pc' = "done"
    /\ UNCHANGED <<env, abs_input_dir, abs_output_file, counters, out, created,
                   walk, reads, stdout, faults>>

\* combine_files is entered: the absolute paths and the counters.
Enter(i, o) ==
    /\ args' = [input_dir |-> i, output |-> o]
    /\ abs_input_dir' = abspath(i)
    /\ abs_output_file' = [dir |-> abspath(o.dir), name |-> o.name]
    /\ processed_files' = 0
    /\ skipped_files' = 0
    /\ pc' = "open"

\* __main__ with a directory: call combine_files.
Main(i, o) ==
    /\ pc = "start"
    /\ isdir(i)
    /\ Enter(i, o)
    /\ UNCHANGED <<env, exit_code, out, created, walk, reads, stdout, stderr, faults>>

\* A write to the output file may raise: failures are injected into the first
\* run only, and at most MaxWriteFaults of them.
CanFail == run = "first" /\ faults < MaxWriteFaults

\* The function returns through the outer except clause; the script ends.
Abort ==
    /\ stderr' = Append(stderr, Diag("output_error", abs_output_file))
    /\ pc' = "done"
    /\ exit_code' = 0

\* open(output_file, "w") raises: nothing is created.
OpenFail ==
    /\ pc = "open"
    /\ Abort
    /\ UNCHANGED <<env, args, abs_input_dir, abs_output_file, counters, out,
                   created, walk, reads, stdout, faults>>

\* open(output_file, "w") creates or truncates the file; the k-th header
\* write raises.
HeaderWriteFail(k) ==
    /\ pc = "open"
    /\ CanFail
    /\ faults' = faults + 1
    /\ created' = TRUE
    /\ files' = files \cup {RealEntry(abs_output_file)}
    /\ out' = SubSeq(Header, 1, k - 1)
    /\ Abort
    /\ UNCHANGED <<unreadable, run, prev, args, abs_input_dir, abs_output_file,
                   counters, walk, reads, stdout>>

\* open(output_file, "w"), the header, and the start of os.walk.
OpenOutput ==
    /\ pc = "open"
    /\ created' = TRUE
    /\ files' = files \cup {RealEntry(abs_output_file)}
    /\ out' = Header
    /\ stack' = <<abs_input_dir>>
    /\ dirpath' = <<>>
    /\ pending' = <<>>
    /\ pc' = "walk"
    /\ UNCHANGED <<unreadable, run, prev, args, exit_code, abs_input_dir,
                   abs_output_file, counters, reads, stdout, stderr, faults>>

\* os.walk yields the next directory; its ignored sub-directories are pruned
\* before the walk descends.
WalkDir ==
    /\ pc = "walk"
    /\ pending = <<>>
    /\ stack # <<>>
    /\ LET top == Head(stack)
           dirnames == PruneDirs(ListDirs(top))
       IN  /\ dirpath' = top
           /\ pending' = ListFiles(top, files)
           /\ stack' = [j \in 1..Len(dirnames) |-> top \o <<dirnames[j]>>] \o Tail(stack)
    /\ UNCHANGED <<env, args, pc, exit_code, abs_input_dir, abs_output_file,
                   counters, out, created, reads, stdout, stderr, faults>>

\* continue without skipped_files += 1
Skip_uncounted ==
    /\ pending' = Tail(pending)
    /\ UNCHANGED <<env, args, pc, exit_code, abs_input_dir, abs_output_file,
                   counters, out, created, stack, dirpath, reads, stdout,
                   stderr, faults>>

\* continue after skipped_files += 1
Skip ==
    /\ skipped_files' = skipped_files + 1
    /\ pending' = Tail(pending)
    /\ UNCHANGED <<env, args, pc, exit_code, abs_input_dir, abs_output_file,
                   processed_files, out, created, stack, dirpath, reads, stdout,
                   stderr, faults>>

SkipIgnoredFile ==
    /\ InLoop
    /\ IgnoredFile(filename)
    /\ Skip

SkipIgnoredExtension ==
    /\ InLoop
    /\ ~IgnoredFile(filename)
    /\ IgnoredExtension(filename)
    /\ Skip

SkipOutputItself ==
    /\ InLoop
    /\ ~IgnoredFile(filename)
    /\ ~IgnoredExtension(filename)
    /\ IsOutputItself(file_path)
    /\ Skip

\* The candidate is read and its record written.
ProcessFile ==
    /\ Candidate
    /\ RealEntry(file_path) \notin unreadable
    /\ reads' = Append(reads, Read(file_path, TRUE))
    /\ out' = out \o Record(relpath(file_path, abs_input_dir), RealEntry(file_path))
    /\ processed_files' = processed_files + 1
    /\ pending' = Tail(pending)
    /\ UNCHANGED <<env, args, pc, exit_code, abs_input_dir, abs_output_file,
                   skipped_files, created, stack, dirpath, stdout, stderr, faults>>

\* The read sits outside the inner try: its OSError reaches the outer except
\* clause and ends the run.
ReadError_fatal ==
    /\ Candidate
    /\ RealEntry(file_path) \in unreadable
    /\ reads' = Append(reads, Read(file_path, FALSE))
    /\ Abort
    /\ UNCHANGED <<env, args, abs_input_dir, abs_output_file, counters, out,
                   created, walk, stdout, faults>>

\* open or read raises OSError: reported, counted as skipped.
ReadError ==
    /\ Candidate
    /\ RealEntry(file_path) \in unreadable
    /\ reads' = Append(reads, Read(file_path, FALSE))
    /\ stderr' = Append(stderr, Diag("read_error", file_path))
    /\ skipped_files' = skipped_files + 1
    /\ pending' = Tail(pending)
    /\ UNCHANGED <<env, args, pc, exit_code, abs_input_dir, abs_output_file,
                   processed_files, out, created, stack, dirpath, stdout, faults>>

\* The candidate is read, but the k-th write of its record raises OSError:
\* the same except clause reports it and counts the file as skipped.
RecordWriteFail(k) ==
    /\ Candidate
    /\ RealEntry(file_path) \notin unreadable
    /\ CanFail
    /\ faults' = faults + 1
    /\ reads' = Append(reads, Read(file_path, TRUE))
    /\ out' = out \o SubSeq(Record(relpath(file_path, abs_input_dir), RealEntry(file_path)),
                            1, k - 1)
    /\ stderr' = Append(stderr, Diag("read_error", file_path))
    /\ skipped_files' = skipped_files + 1
    /\ pending' = Tail(pending)
    /\ UNCHANGED <<env, args, pc, exit_code, abs_input_dir, abs_output_file,
                   processed_files, created, stack, dirpath, stdout>>

WalkOver == pc = "walk" /\ pending = <<>> /\ stack = <<>>

\* The summary without the footer write.
Finish_noFooter ==
    /\ WalkOver
    /\ stdout' = [printed |-> TRUE, processed |-> processed_files,
                  skipped |-> skipped_files]
    /\ pc' = "done"
    /\ exit_code' = 0
    /\ UNCHANGED <<env, args, abs_input_dir, abs_output_file, counters, out,
                   created, walk, reads, stderr, faults>>

\* The footer, the end of the with block, the summary.
Finish ==
    /\ WalkOver
    /\ out' = Append(out, Footer)
    /\ stdout' = [printed |-> TRUE, processed |-> processed_files,
                  skipped |-> skipped_files]
    /\ pc' = "done"
    /\ exit_code' = 0
    /\ UNCHANGED <<env, args, abs_input_dir, abs_output_file, counters, created,
                   walk, reads, stderr, faults>>

\* The footer write raises.
FooterWriteFail ==
    /\ WalkOver
    /\ CanFail
    /\ faults' = faults + 1
    /\ Abort
    /\ UNCHANGED <<env, args, abs_input_dir, abs_output_file, counters, out,
                   created, walk, reads, stdout>>

\* After a run that completed without a failed write, the user runs the tool
\* again on the same input_dir with another -o path; the tree is as the first
\* run left it.
SecondRun(o) ==
    /\ pc = "done"
    /\ run = "first"
    /\ stdout.printed
    /\ faults = 0
    /\ o # args.output
    /\ run' = "second"
    /\ prev' = [valid |-> TRUE, out |-> out, stdout |-> stdout,
                abs_output_file |-> abs_output_file]
    /\ Enter(args.input_dir, o)
    /\ exit_code' = NoExit
    /\ out' = <<>>
    /\ created' = FALSE
    /\ reads' = <<>>
    /\ stdout' = NoSummary
    /\ stderr' = <<>>
    /\ UNCHANGED <<files, unreadable, walk, faults>>

Next ==
    \/ \E i \in InputArgs, o \in OutputArgs : MainBadRoot(i, o)
    \/ \E i \in InputArgs, o \in OutputArgs : Main(i, o)
    \/ OpenFail
    \/ \E k \in 1..3 : HeaderWriteFail(k)
    \/ OpenOutput
    \/ WalkDir
    \/ SkipIgnoredFile
    \/ SkipIgnoredExtension
    \/ SkipOutputItself
    \/ ProcessFile
    \/ ReadError
    \/ \E k \in 1..3 : RecordWriteFail(k)
    \/ Finish
    \/ FooterWriteFail

Spec == Init /\ [][Next]_vars

NextTwice == Next \/ \E o \in OutputArgs : SecondRun(o)

SpecTwice == Init /\ [][NextTwice]_vars

----------------------------------------------------------------------------
(* Vocabulary of the properties *)

\* A directory path with a component whose name is an ignored directory.
HasIgnoredDir(d) == \E j \in DOMAIN d : d[j] \in IGNORED_DIRS

\* The positional argument names an existing directory.
IsDirectory(i) == Resolve(normpath(Cwd \o i)) \in Directories

\* Files in the directories the walk is to visit: below the root, with no
\* ignored directory on the way.
WalkedFiles == {f \in files : IsPrefix(RealRoot, f.dir) /\ ~HasIgnoredDir(f.dir)}

\* The file the output path names.
OutputEntry(of) == [dir |-> Resolve(of.dir), name |-> of.name]

\* A file name the filters are to reject.
NameFiltered(n) == n \in IGNORED_FILES \/ lower(splitext(n)) \in IGNORED_EXTENSIONS

KindCount(o, k) == Cardinality({j \in DOMAIN o : o[j].kind = k})

\* The output starts with the header and ends with the footer, each once.
WellFormed(o) ==
    /\ Len(o) >= 4
    /\ o[1].kind = "header_dir" /\ o[2].kind = "header_out" /\ o[3].kind = "begin"
    /\ o[Len(o)].kind = "end_of_content"
    /\ KindCount(o, "header_dir") = 1 /\ KindCount(o, "header_out") = 1
    /\ KindCount(o, "begin") = 1 /\ KindCount(o, "end_of_content") = 1

OutputErrorReported == \E j \in DOMAIN stderr : stderr[j].kind = "output_error"

\* The output without the two header lines that carry absolute paths.
Body(o) ==
    LET Kept(piece) == piece.kind \notin {"header_dir", "header_out"}
    IN  SelectSeq(o, Kept)

\* The output path names a file in a directory the walk visits.
OutputWalked(of) ==
    IsPrefix(RealRoot, Resolve(of.dir)) /\ ~HasIgnoredDir(Resolve(of.dir))

RECURSIVE RecordsOf(_)
\* The records of the successful reads, in the order of the reads.
RecordsOf(rs) ==
    IF rs = <<>> THEN <<>>
    ELSE (IF Head(rs).ok
          THEN <<[kind |-> "start", path |-> Head(rs).path],
                 [kind |-> "content", path |-> Head(rs).entry],
                 [kind |-> "end", path |-> Head(rs).path]>>
          ELSE <<>>) \o RecordsOf(Tail(rs))

\* The pieces written between header and footer.
RecordPieces(o) ==
    LET Kept(piece) == piece.kind \in {"start", "content", "end"}
    IN  SelectSeq(o, Kept)

----------------------------------------------------------------------------
(* Properties *)

\* C1: no file beneath a sub-directory with an ignored name is ever opened
\* for reading or gets a start marker, content or end marker in the output,
\* at any depth and whatever the file's own name.
C1_PrunedSubtreesNeverRead ==
    /\ \A j \in DOMAIN reads : ~HasIgnoredDir(reads[j].path.dir)
    /\ \A j \in DOMAIN out :
          out[j].kind \in {"start", "content", "end"} => ~HasIgnoredDir(out[j].path.dir)

\* A completed run over a tree with a.py two levels below the ignored
\* directory build, in which another file was processed.
C1_Witness ==
    /\ stdout.printed
    /\ processed_files >= 1
    /\ [dir |-> RealRoot \o <<"build", "src">>, name |-> APy] \in files

\* C2: a file whose name is in the ignored-files set (exact match) or whose
\* lowercased extension is in the ignored-extensions set is never opened for
\* reading and has no start marker in the output.
C2_IgnoredFilesNeverRead ==
    /\ \A j \in DOMAIN reads : ~NameFiltered(reads[j].path.name)
    /\ \A j \in DOMAIN out : out[j].kind = "start" => ~NameFiltered(out[j].path.name)

\* A completed run over a root holding b.O (upper-case ignored extension)
\* and .DS_Store (ignored name), both skipped.
C2_Witness ==
    /\ stdout.printed
    /\ skipped_files >= 2
    /\ [dir |-> RealRoot, name |-> BUpperO] \in files
    /\ [dir |-> RealRoot, name |-> DSStore] \in files

\* C3: the output file is never opened for reading by the run that writes it,
\* wherever below input_dir it lies.
C3_SelfExclusion ==
    created => \A j \in DOMAIN reads : reads[j].entry # OutputEntry(abs_output_file)

\* C4: when a run completes, processed_files + skipped_files is the number of
\* files in the directories the walk visits; files below ignored directories
\* count for neither.
C4_CountersCoverWalkedFiles ==
    stdout.printed => processed_files + skipped_files = Cardinality(WalkedFiles)

\* A completed run that processed a file, skipped a file, and whose tree has
\* a file below an ignored directory.
C4_Witness ==
    /\ stdout.printed
    /\ processed_files >= 1
    /\ skipped_files >= 1
    /\ \E f \in files : IsPrefix(RealRoot, f.dir) /\ HasIgnoredDir(f.dir)

\* Every readable candidate of the walked directories, other than the output
\* file, has a start marker, and the footer is the last piece written.
AllLaterFilesProcessed ==
    /\ out # <<>> /\ out[Len(out)].kind = "end_of_content"
    /\ \A f \in WalkedFiles :
          (/\ ~NameFiltered(f.name)
           /\ f \notin unreadable
           /\ f # OutputEntry(abs_output_file))
          => \E j \in DOMAIN out : out[j].kind = "content" /\ out[j].path = f

\* C5: a failed read of a candidate is reported, adds one to skipped_files,
\* leaves processed_files and the output alone and the walk goes on with the
\* next file; and a run in which no write to the output failed ends with every
\* other candidate processed and the footer written.
C5_ReadFailureNotFatal ==
    [][/\ (Len(reads') = Len(reads) + 1 /\ ~reads'[Len(reads')].ok)
          => /\ skipped_files' = skipped_files + 1
             /\ processed_files' = processed_files
             /\ out' = out
             /\ Len(stderr') = Len(stderr) + 1
             /\ stderr'[Len(stderr')].kind = "read_error"
             /\ pc' = "walk" /\ exit_code' = NoExit
             /\ pending' = Tail(pending) /\ stack' = stack
       /\ (pc' = "done" /\ created' /\ faults' = 0)
          => AllLaterFilesProcessed']_vars

\* A completed run in which a read failed and a later file was processed.
C5_Witness ==
    /\ stdout.printed
    /\ \E j, k \in DOMAIN reads : j < k /\ ~reads[j].ok /\ reads[k].ok
    /\ \E j \in DOMAIN out : out[j].kind = "start"

\* C6: when input_dir is no directory the process exits with code 1 and the
\* output file is neither created nor truncated.
C6_BadRootExitsFirst ==
    (pc = "done" /\ ~IsDirectory(args.input_dir))
        => exit_code = 1 /\ ~created /\ out = <<>> /\ files \subseteq Entries

\* The run was given a regular file as input_dir and has ended.
C6_Witness ==
    /\ pc = "done"
    /\ normpath(Cwd \o args.input_dir) \in PlainPaths
    /\ exit_code = 1

\* C7 as stated: whenever the root is a directory and the output file could
\* be opened, the run ends with header and footer each written once and the
\* summary printed.
C7_OnlyTwoFatalConditions ==
    (pc = "done" /\ IsDirectory(args.input_dir) /\ created)
        => WellFormed(out) /\ stdout.printed

\* C7 amended: whenever the root is a directory, the output file could be
\* opened and no write of a header or footer line failed, the run ends with
\* header and footer each written once and the summary printed.
C7_ThreeFatalConditions ==
    (pc = "done" /\ IsDirectory(args.input_dir) /\ created /\ ~OutputErrorReported)
        => WellFormed(out) /\ stdout.printed

\* A completed run in which every file was skipped.
C7_Witness ==
    /\ pc = "done"
    /\ created
    /\ ~OutputErrorReported
    /\ processed_files = 0
    /\ skipped_files >= 1

\* Both runs completed, no write failed, and the two outputs are two files.
TwoCompletedRuns ==
    /\ run = "second"
    /\ pc = "done"
    /\ stdout.printed
    /\ prev.stdout.printed
    /\ faults = 0
    /\ OutputEntry(prev.abs_output_file) # OutputEntry(abs_output_file)

\* C8 as stated: two completed runs on the same tree give the same output
\* apart from the header's path lines, wherever the two output files lie.
C8_IdempotentAnywhere ==
    TwoCompletedRuns => Body(out) = Body(prev.out)

\* C8 amended: two completed runs on the same tree give the same output apart
\* from the header's path lines when neither output file lies in a directory
\* the walk visits.
C8_IdempotentOutsideWalk ==
    (/\ TwoCompletedRuns
     /\ ~OutputWalked(prev.abs_output_file)
     /\ ~OutputWalked(abs_output_file))
        => Body(out) = Body(prev.out)

\* Two completed runs that processed a file, the first writing next to the
\* root and the second into a pruned directory of the tree.
C8_Witness ==
    /\ TwoCompletedRuns
    /\ ~OutputWalked(prev.abs_output_file)
    /\ ~OutputWalked(abs_output_file)
    /\ IsPrefix(RealRoot, abs_output_file.dir)
    /\ processed_files >= 1

\* C9: the records in the output are exactly the whole records of the
\* candidates read successfully, one each, in the order they were read.
C9_RecordsInReadOrder ==
    RecordPieces(out) = RecordsOf(reads)

\* C10: processed_files is the number of start markers in the output, and
\* every start marker is followed by the content and the end marker of the
\* same relative path.
C10_MarkersBalanced ==
    /\ processed_files = KindCount(out, "start")
    /\ \A j \in DOMAIN out :
          out[j].kind = "start"
          => /\ j + 2 <= Len(out)
             /\ out[j + 1].kind = "content"
             /\ out[j + 2].kind = "end"
             /\ out[j + 2].path = out[j].path

====
